---- MODULE Spec2Model ----
(***************************************************************************)
(* HttpCertification (ic-http-certification, tree/certification.rs):       *)
(* the three constructors skip(), response_only() and full(), and the      *)
(* path encoder to_tree_path().  The functions are run by a small set of   *)
(* independent callers; every call of an external collaborator (hash,      *)
(* request_hash, response_hash) is logged in the order the code makes it.  *)
(***************************************************************************)
EXTENDS Integers, Sequences, FiniteSets, TLC

VARIABLES op, args, calls, ret, pc, tree_path

vars == <<op, args, calls, ret, pc, tree_path>>

(***************************************************************************)
(* Bounds of the input space.                                              *)
(***************************************************************************)
\* response bodies are the empty body and the one-byte bodies
\* <<0>> .. <<MaxBodyByte>>
MaxBodyByte == 0

Callers == {"a", "b"}

(***************************************************************************)
(* Option<T> and Result<T, E>.                                             *)
(***************************************************************************)
None == [some |-> FALSE]
Some(v) == [some |-> TRUE, value |-> v]

Ok(v) == [ok |-> TRUE, value |-> v]
Err(e) == [ok |-> FALSE, err |-> e]

\* filler for an argument an operation does not take
Absent == [absent |-> TRUE]

(***************************************************************************)
(* External collaborators.  Their code is not part of the core; they are   *)
(* modelled from their stated contracts.                                   *)
(***************************************************************************)
\* Hash = [u8; 32]
HashLen == 32

\* byte codes of the names that occur in policies, requests and responses
NameCode ==
    [n \in {"ETag", "If-Match", "foo", "GET"} |->
        CASE n = "ETag" -> 11 [] n = "If-Match" -> 12 [] n = "foo" -> 13 [] n = "GET" -> 14]

RECURSIVE EncodeNames(_)
EncodeNames(names) ==
    IF names = <<>> THEN <<0>>
    ELSE <<NameCode[Head(names)]>> \o EncodeNames(Tail(names))

\* ic_representation_independent_hash::hash : a deterministic, order-sensitive
\* digest of HashLen bytes.  The digest is an expansion of a position-weighted
\* checksum of the input bytes.
hash_weight(i) == (131 * i * i + 7 * i + 1) % 65536

RECURSIVE hash_sum(_, _, _)
hash_sum(bytes, lo, hi) ==
    IF lo > hi THEN 0
    ELSE IF lo = hi THEN (bytes[lo] + 1) * hash_weight(lo)
    ELSE LET mid == (lo + hi) \div 2
         IN  (hash_sum(bytes, lo, mid) + hash_sum(bytes, mid + 1, hi)) % 16777216

hash_acc(bytes) == (1009 * Len(bytes) + hash_sum(bytes, 1, Len(bytes))) % 16777216

hash(bytes) ==
    LET acc == hash_acc(bytes)
        digit(k) == CASE k % 3 = 1 -> acc % 256
                      [] k % 3 = 2 -> (acc \div 256) % 256
                      [] OTHER     -> (acc \div 65536) % 256
    IN  [k \in 1..HashLen |-> (digit(k) + ((k - 1) \div 3)) % 256]

\* the response-certification rules of a policy: the certified header names
ResponseRules == {<<>>, <<"ETag">>}

\* the request-certification rules of a policy
NoRequestRules == [headers |-> <<>>, query_parameters |-> <<>>]
SomeRequestRules == [headers |-> <<"If-Match">>, query_parameters |-> <<"foo">>]
RequestRules == {NoRequestRules, SomeRequestRules}

\* DefaultCelBuilder::skip_certification()
skip_certification == [kind |-> "Skip"]

DefaultResponseOnlyCelExpressions ==
    {[kind |-> "ResponseOnly", response |-> r] : r \in ResponseRules}

DefaultFullCelExpressions ==
    {[kind |-> "Full", request |-> NoRequestRules, response |-> <<>>],
     [kind |-> "Full", request |-> SomeRequestRules, response |-> <<"ETag">>]}

\* Display of a CEL expression (to_string), as the bytes of its text:
\* 1 default_certification, 2 no_certification, 3 certification,
\* 4 no_request_certification, 5 request_certification,
\* 6 response_certification
to_string(cel_expr) ==
    CASE cel_expr.kind = "Skip" -> <<1, 2>>
      [] cel_expr.kind = "ResponseOnly" ->
            <<1, 3, 4, 6>> \o EncodeNames(cel_expr.response)
      [] cel_expr.kind = "Full" ->
            <<1, 3, 5>> \o EncodeNames(cel_expr.request.headers)
                \o EncodeNames(cel_expr.request.query_parameters)
                \o <<6>> \o EncodeNames(cel_expr.response)

Bodies == {<<>>} \cup {<<b>> : b \in 0..MaxBodyByte}

HttpResponses ==
    {[status_code |-> 200, headers |-> <<"ETag">>, body |-> b, upgrade |-> None] :
        b \in Bodies}

WellFormedUrl == "/index.html?foo=1"
MalformedUrl == "/index.html?foo=%"

HttpRequests ==
    {[method |-> "GET", url |-> u, headers |-> <<"If-Match">>, body |-> <<>>] :
        u \in {WellFormedUrl, MalformedUrl}}

\* the precomputed body digests a caller may supply
BodyHashes == {None} \cup {Some(hash(b)) : b \in Bodies}

RECURSIVE Filter(_, _)
Filter(names, certified) ==
    IF names = <<>> THEN <<>>
    ELSE (IF \E j \in 1..Len(certified) : certified[j] = Head(names)
          THEN <<Head(names)>> ELSE <<>>) \o Filter(Tail(names), certified)

\* response_hash(response, response_certification, response_body_hash):
\* total; a supplied body digest is used instead of hashing the body
response_hash_of(response, response_certification, response_body_hash) ==
    LET headers_hash ==
            hash(<<response.status_code>>
                 \o EncodeNames(Filter(response.headers, response_certification)))
        body_hash ==
            IF response_body_hash.some THEN response_body_hash.value
            ELSE hash(response.body)
    IN  hash(headers_hash \o body_hash)

ResponseHashTable ==
    [key \in HttpResponses \X ResponseRules \X BodyHashes |->
        response_hash_of(key[1], key[2], key[3])] @@ <<>>

response_hash(response, response_certification, response_body_hash) ==
    LET given == <<response, response_certification, response_body_hash>>
    IN  IF given \in DOMAIN ResponseHashTable THEN ResponseHashTable[given]
        ELSE response_hash_of(response, response_certification, response_body_hash)

\* request_hash(request, request_certification): fails when the rules
\* certify query parameters and the query of the request's URL cannot be
\* decoded
request_hash_of(request, request_certification) ==
    IF request_certification.query_parameters # <<>> /\ request.url = MalformedUrl
    THEN Err([kind |-> "MalformedUrl", url |-> request.url])
    ELSE LET headers_hash ==
                 hash(<<NameCode[request.method]>>
                      \o EncodeNames(Filter(request.headers, request_certification.headers))
                      \o EncodeNames(request_certification.query_parameters))
         IN  Ok(hash(headers_hash \o hash(request.body)))

RequestHashTable ==
    [key \in HttpRequests \X RequestRules |-> request_hash_of(key[1], key[2])] @@ <<>>

request_hash(request, request_certification) ==
    LET given == <<request, request_certification>>
    IN  IF given \in DOMAIN RequestHashTable THEN RequestHashTable[given]
        ELSE request_hash_of(request, request_certification)

CelExprHashTable ==
    [e \in {skip_certification} \cup DefaultResponseOnlyCelExpressions
            \cup DefaultFullCelExpressions |-> hash(to_string(e))] @@ <<>>

\* hash(cel_expr.to_string().as_bytes())
cel_hash(cel_expr) ==
    IF cel_expr \in DOMAIN CelExprHashTable THEN CelExprHashTable[cel_expr]
    ELSE hash(to_string(cel_expr))

(***************************************************************************)
(* The log of calls to the external collaborators.                         *)
(***************************************************************************)
HashCall(bytes) == [fn |-> "hash", input |-> bytes]
RequestHashCall(request, rules) ==
    [fn |-> "request_hash", input |-> <<request, rules>>]
ResponseHashCall(response, rules, body_hash) ==
    [fn |-> "response_hash", input |-> <<response, rules, body_hash>>]

(***************************************************************************)
(* HttpCertification.  Each constructor yields its return value and the    *)
(* calls it made, in order.                                                *)
(***************************************************************************)
Skip(cel_expr_hash) == [type |-> "Skip", cel_expr_hash |-> cel_expr_hash]
ResponseOnly(cel_expr_hash, resp_hash) ==
    [type |-> "ResponseOnly", cel_expr_hash |-> cel_expr_hash,
     response_hash |-> resp_hash]
Full(cel_expr_hash, req_hash, resp_hash) ==
    [type |-> "Full", cel_expr_hash |-> cel_expr_hash,
     request_hash |-> req_hash, response_hash |-> resp_hash]

\* faulty variant: the policy text is not hashed, the digest of the empty
\* input is stored
skip_unhashed ==
    [ret |-> Skip(hash(<<>>)), calls |-> <<HashCall(<<>>)>>]

\* faulty variant: the text of the default response-only policy is hashed
skip_as_response_only ==
    LET cel_expr == [kind |-> "ResponseOnly", response |-> <<>>]
    IN  [ret |-> Skip(cel_hash(cel_expr)), calls |-> <<HashCall(to_string(cel_expr))>>]

skip ==
    LET cel_expr == to_string(skip_certification)
        cel_expr_hash == cel_hash(skip_certification)
    IN  [ret |-> Skip(cel_expr_hash), calls |-> <<HashCall(cel_expr)>>]

\* faulty variant: the supplied digest is taken for a body and hashed again
response_only_rehash(cel_expr, response, response_body_hash) ==
    LET cel_expr_hash == cel_hash(cel_expr)
        passed == IF response_body_hash.some
                  THEN Some(hash(response_body_hash.value)) ELSE None
        resp_hash == response_hash(response, cel_expr.response, passed)
    IN  [ret |-> ResponseOnly(cel_expr_hash, resp_hash),
         calls |-> <<HashCall(to_string(cel_expr)),
                     ResponseHashCall(response, cel_expr.response, passed)>>]

\* faulty variant: a build without a precomputed digest of a non-empty
\* body is rejected
response_only_fallible(cel_expr, response, response_body_hash) ==
    LET cel_expr_hash == cel_hash(cel_expr)
        resp_hash == response_hash(response, cel_expr.response, response_body_hash)
    IN  IF ~response_body_hash.some /\ response.body # <<>>
        THEN [ret |-> Err([kind |-> "MissingBodyHash"]),
              calls |-> <<HashCall(to_string(cel_expr))>>]
        ELSE [ret |-> ResponseOnly(cel_expr_hash, resp_hash),
              calls |-> <<HashCall(to_string(cel_expr)),
                          ResponseHashCall(response, cel_expr.response,
                                           response_body_hash)>>]

\* faulty variant: the response hash is taken from a memo shared with the
\* full builds and keyed by the response and the digest, not by the rules
response_only_cached(cel_expr, response, response_body_hash) ==
    LET cel_expr_hash == cel_hash(cel_expr)
        cached == {c \in Callers : /\ op[c] = "full" /\ ret[c].ok
                                   /\ args[c].response = response
                                   /\ args[c].response_body_hash = response_body_hash}
        resp_hash ==
            IF cached # {} THEN ret[CHOOSE c \in cached : TRUE].value.response_hash
            ELSE response_hash(response, cel_expr.response, response_body_hash)
    IN  [ret |-> ResponseOnly(cel_expr_hash, resp_hash),
         calls |-> <<HashCall(to_string(cel_expr)),
                     ResponseHashCall(response, cel_expr.response, response_body_hash)>>]

response_only(cel_expr, response, response_body_hash) ==
    LET cel_expr_hash == cel_hash(cel_expr)
        resp_hash == response_hash(response, cel_expr.response, response_body_hash)
    IN  [ret |-> ResponseOnly(cel_expr_hash, resp_hash),
         calls |-> <<HashCall(to_string(cel_expr)),
                     ResponseHashCall(response, cel_expr.response, response_body_hash)>>]

\* faulty variant: a failure of the request hasher is swallowed and the
\* digest of the empty input stands for the request hash
full_swallow(cel_expr, request, response, response_body_hash) ==
    LET cel_expr_hash == cel_hash(cel_expr)
        req_hash == request_hash(request, cel_expr.request)
        resp_hash == response_hash(response, cel_expr.response, response_body_hash)
    IN  [ret |-> Ok(Full(cel_expr_hash,
                         IF req_hash.ok THEN req_hash.value ELSE hash(<<>>),
                         resp_hash)),
         calls |-> <<HashCall(to_string(cel_expr)),
                     RequestHashCall(request, cel_expr.request),
                     ResponseHashCall(response, cel_expr.response,
                                      response_body_hash)>>]

\* faulty variant: the response hash is computed before the request hash
full_response_first(cel_expr, request, response, response_body_hash) ==
    LET cel_expr_hash == cel_hash(cel_expr)
        resp_hash == response_hash(response, cel_expr.response, response_body_hash)
        req_hash == request_hash(request, cel_expr.request)
    IN  IF ~req_hash.ok
        THEN [ret |-> Err(req_hash.err),
              calls |-> <<HashCall(to_string(cel_expr)),
                          ResponseHashCall(response, cel_expr.response,
                                           response_body_hash),
                          RequestHashCall(request, cel_expr.request)>>]
        ELSE [ret |-> Ok(Full(cel_expr_hash, req_hash.value, resp_hash)),
              calls |-> <<HashCall(to_string(cel_expr)),
                          ResponseHashCall(response, cel_expr.response,
                                           response_body_hash),
                          RequestHashCall(request, cel_expr.request)>>]

full(cel_expr, request, response, response_body_hash) ==
    LET cel_expr_hash == cel_hash(cel_expr)
        req_hash == request_hash(request, cel_expr.request)
        resp_hash == response_hash(response, cel_expr.response, response_body_hash)
    IN  IF ~req_hash.ok
        THEN \* the ? operator returns the error before response_hash is called
             [ret |-> Err(req_hash.err),
              calls |-> <<HashCall(to_string(cel_expr)),
                          RequestHashCall(request, cel_expr.request)>>]
        ELSE [ret |-> Ok(Full(cel_expr_hash, req_hash.value, resp_hash)),
              calls |-> <<HashCall(to_string(cel_expr)),
                          RequestHashCall(request, cel_expr.request),
                          ResponseHashCall(response, cel_expr.response,
                                           response_body_hash)>>]

\* Hash::to_vec: the bytes of the array, as a vector
to_vec(h) == [i \in 1..Len(h) |-> h[i]]

\* faulty variant: the Full arm lists the response hash before the
\* request hash
to_tree_path_swapped(self) ==
    CASE self.type = "Skip" -> <<to_vec(self.cel_expr_hash)>>
      [] self.type = "ResponseOnly" ->
            <<to_vec(self.cel_expr_hash), <<>>, to_vec(self.response_hash)>>
      [] self.type = "Full" ->
            <<to_vec(self.cel_expr_hash), to_vec(self.response_hash),
              to_vec(self.request_hash)>>

\* faulty variant: the ResponseOnly arm leaves the empty segment out
to_tree_path_short(self) ==
    CASE self.type = "Skip" -> <<to_vec(self.cel_expr_hash)>>
      [] self.type = "ResponseOnly" ->
            <<to_vec(self.cel_expr_hash), to_vec(self.response_hash)>>
      [] self.type = "Full" ->
            <<to_vec(self.cel_expr_hash), to_vec(self.request_hash),
              to_vec(self.response_hash)>>

\* faulty variant: the ResponseOnly arm repeats the policy hash in place of
\* the response hash
to_tree_path_repeat(self) ==
    CASE self.type = "Skip" -> <<to_vec(self.cel_expr_hash)>>
      [] self.type = "ResponseOnly" ->
            <<to_vec(self.cel_expr_hash), <<>>, to_vec(self.cel_expr_hash)>>
      [] self.type = "Full" ->
            <<to_vec(self.cel_expr_hash), to_vec(self.request_hash),
              to_vec(self.response_hash)>>

to_tree_path(self) ==
    CASE self.type = "Skip" -> <<to_vec(self.cel_expr_hash)>>
      [] self.type = "ResponseOnly" ->
            <<to_vec(self.cel_expr_hash), <<>>, to_vec(self.response_hash)>>
      [] self.type = "Full" ->
            <<to_vec(self.cel_expr_hash), to_vec(self.request_hash),
              to_vec(self.response_hash)>>

(***************************************************************************)
(* The callers.                                                            *)
(***************************************************************************)
NoPath == [none |-> TRUE]

Init ==
    /\ op = [c \in Callers |-> "none"]
    /\ args = [c \in Callers |-> Absent]
    /\ calls = [c \in Callers |-> <<>>]
    /\ ret = [c \in Callers |-> Absent]
    /\ pc = [c \in Callers |-> "idle"]
    /\ tree_path = [c \in Callers |-> NoPath]

NoArgs ==
    [cel_expr |-> Absent, request |-> Absent, response |-> Absent,
     response_body_hash |-> Absent]

CallSkip(c) ==
    /\ op' = [op EXCEPT ![c] = "skip"]
    /\ args' = [args EXCEPT ![c] = NoArgs]
    /\ calls' = [calls EXCEPT ![c] = skip.calls]
    /\ ret' = [ret EXCEPT ![c] = skip.ret]
    /\ pc' = [pc EXCEPT ![c] = "built"]
    /\ tree_path' = [tree_path EXCEPT ![c] = NoPath]

CallResponseOnly(c) ==
    \E cel_expr \in DefaultResponseOnlyCelExpressions, response \in HttpResponses,
       response_body_hash \in BodyHashes :
        LET out == response_only(cel_expr, response, response_body_hash)
        IN  /\ op' = [op EXCEPT ![c] = "response_only"]
            /\ args' = [args EXCEPT ![c] =
                    [NoArgs EXCEPT !.cel_expr = cel_expr, !.response = response,
                                   !.response_body_hash = response_body_hash]]
            /\ calls' = [calls EXCEPT ![c] = out.calls]
            /\ ret' = [ret EXCEPT ![c] = out.ret]
            /\ pc' = [pc EXCEPT ![c] = "built"]
            /\ tree_path' = [tree_path EXCEPT ![c] = NoPath]

CallFull(c) ==
    \E cel_expr \in DefaultFullCelExpressions, request \in HttpRequests,
       response \in HttpResponses, response_body_hash \in BodyHashes :
        LET out == full(cel_expr, request, response, response_body_hash)
        IN  /\ op' = [op EXCEPT ![c] = "full"]
            /\ args' = [args EXCEPT ![c] =
                    [cel_expr |-> cel_expr, request |-> request, response |-> response,
                     response_body_hash |-> response_body_hash]]
            /\ calls' = [calls EXCEPT ![c] = out.calls]
            /\ ret' = [ret EXCEPT ![c] = out.ret]
            \* a caller holds a certification only after Ok
            /\ pc' = [pc EXCEPT ![c] = IF out.ret.ok THEN "built" ELSE "failed"]
            /\ tree_path' = [tree_path EXCEPT ![c] = NoPath]

\* the certification a caller holds after a successful build
Certification(c) == IF op[c] = "full" THEN ret[c].value ELSE ret[c]

ToTreePath(c) ==
    /\ pc[c] = "built"
    /\ tree_path' = [tree_path EXCEPT ![c] = to_tree_path(Certification(c))]
    /\ pc' = [pc EXCEPT ![c] = "encoded"]
    /\ UNCHANGED <<op, args, calls, ret>>

Next ==
    \E c \in Callers :
        \/ CallSkip(c)
        \/ CallResponseOnly(c)
        \/ CallFull(c)
        \/ ToTreePath(c)

Spec == Init /\ [][Next]_vars

(***************************************************************************)
(* Properties.                                                             *)
(***************************************************************************)
Built(c) == pc[c] \in {"built", "encoded"}
Encoded(c) == pc[c] = "encoded"

\* the three hashes, recomputed from a caller's arguments
PolicyHashOf(c) == hash(to_string(args[c].cel_expr))
RequestHashOf(c) == request_hash_of(args[c].request, args[c].cel_expr.request)
ResponseHashOf(c) ==
    response_hash_of(args[c].response, args[c].cel_expr.response,
                     args[c].response_body_hash)

IsHash(h) == /\ DOMAIN h = 1..HashLen
             /\ \A i \in 1..HashLen : h[i] \in 0..255

IsCertification(v) ==
    /\ "type" \in DOMAIN v
    /\ \/ v.type = "Skip" /\ DOMAIN v = {"type", "cel_expr_hash"}
       \/ v.type = "ResponseOnly"
            /\ DOMAIN v = {"type", "cel_expr_hash", "response_hash"}
       \/ v.type = "Full"
            /\ DOMAIN v = {"type", "cel_expr_hash", "request_hash", "response_hash"}
    /\ \A f \in DOMAIN v \ {"type"} : IsHash(v[f])

\* C1: the tree path of a full certification has exactly three segments,
\* none of them empty: the hash of the policy's text, the request hash and
\* the response hash, in that order.
C1_FullPath ==
    \A c \in Callers :
        (op[c] = "full" /\ Encoded(c)) =>
            /\ Len(tree_path[c]) = 3
            /\ \A i \in 1..3 : tree_path[c][i] # <<>>
            /\ RequestHashOf(c).ok
            /\ tree_path[c] =
                   <<PolicyHashOf(c), RequestHashOf(c).value, ResponseHashOf(c)>>

C1_Witness ==
    \E c \in Callers :
        /\ op[c] = "full" /\ Encoded(c)
        /\ args[c].cel_expr.request = SomeRequestRules
        /\ args[c].response_body_hash.some

\* C2: the tree path of a response-only certification has exactly three
\* segments: the hash of the policy's text, the empty byte string and the
\* response hash.
C2_ResponseOnlyPath ==
    \A c \in Callers :
        (op[c] = "response_only" /\ Encoded(c)) =>
            /\ Len(tree_path[c]) = 3
            /\ tree_path[c][2] = <<>>
            /\ tree_path[c][1] = PolicyHashOf(c)
            /\ tree_path[c][3] = ResponseHashOf(c)

C2_Witness ==
    \E c \in Callers :
        /\ op[c] = "response_only" /\ Encoded(c)
        /\ args[c].cel_expr.response # <<>>
        /\ args[c].response_body_hash.some

\* C3: skip() yields the Skip variant holding the hash of the text of the
\* skip policy, and its tree path is that one hash.
C3_SkipPath ==
    \A c \in Callers :
        op[c] = "skip" =>
            /\ Built(c)
            /\ ret[c] = Skip(hash(to_string(skip_certification)))
            /\ Encoded(c) =>
                   /\ Len(tree_path[c]) = 1
                   /\ tree_path[c] = <<hash(to_string(skip_certification))>>

C3_Witness == \E c \in Callers : op[c] = "skip" /\ Encoded(c)

\* C4: when the request hasher fails, full() returns that failure and the
\* caller holds no certification and no path; full() returns a
\* certification only when the request hasher succeeded.
C4_FailurePropagation ==
    \A c \in Callers :
        op[c] = "full" =>
            /\ ~RequestHashOf(c).ok =>
                   /\ ret[c] = Err(RequestHashOf(c).err)
                   /\ DOMAIN ret[c] = {"ok", "err"}
                   /\ pc[c] = "failed"
                   /\ tree_path[c] = NoPath
            /\ ret[c].ok =>
                   /\ RequestHashOf(c).ok
                   /\ IsCertification(ret[c].value)
                   /\ ret[c].value.type = "Full"

C4_Witness ==
    \E c, d \in Callers :
        /\ op[c] = "full" /\ pc[c] = "failed"
        /\ op[d] = "full" /\ Encoded(d)
        /\ args[d].request = args[c].request

\* C5: a tree path has one or three segments, and the one-segment path of a
\* Skip certification never starts with the first segment of a three-segment
\* path; certifications with the same policy hash are of the same variant.
C5_SkipPrefixDisjoint ==
    /\ \A c \in Callers : Encoded(c) => Len(tree_path[c]) \in {1, 3}
    /\ \A c, d \in Callers :
           (Encoded(c) /\ Encoded(d)
                /\ Len(tree_path[c]) = 1 /\ Len(tree_path[d]) = 3) =>
               tree_path[c][1] # tree_path[d][1]
    /\ \A c, d \in Callers :
           (Built(c) /\ Built(d)
                /\ Certification(c).cel_expr_hash = Certification(d).cel_expr_hash) =>
               Certification(c).type = Certification(d).type

C5_Witness ==
    \E c, d \in Callers :
        /\ op[c] = "skip" /\ Encoded(c)
        /\ op[d] = "response_only" /\ Encoded(d)
        /\ args[d].cel_expr.response = <<>>

\* C6: response_only() and full() pass the supplied body digest unchanged
\* to the response hasher, and a build given the digest of the response's
\* body yields the response hash (and the third path segment) of the same
\* build given no digest.
C6_BodyDigestOverride ==
    /\ \A c \in Callers :
           (op[c] \in {"response_only", "full"} /\ Built(c)) =>
               /\ calls[c][Len(calls[c])] =
                      ResponseHashCall(args[c].response, args[c].cel_expr.response,
                                       args[c].response_body_hash)
               /\ Certification(c).response_hash = ResponseHashOf(c)
    /\ \A c, d \in Callers :
           (/\ op[c] \in {"response_only", "full"} /\ op[d] = op[c]
            /\ Built(c) /\ Built(d)
            /\ args[c].cel_expr = args[d].cel_expr
            /\ args[c].request = args[d].request
            /\ args[c].response = args[d].response
            /\ args[c].response_body_hash = Some(hash(args[c].response.body))
            /\ args[d].response_body_hash = None) =>
               /\ Certification(c).response_hash = Certification(d).response_hash
               /\ (Encoded(c) /\ Encoded(d)) => tree_path[c][3] = tree_path[d][3]

C6_Witness ==
    \E c, d \in Callers :
        /\ op[c] = "response_only" /\ op[d] = "response_only"
        /\ Encoded(c) /\ Encoded(d)
        /\ args[c].cel_expr = args[d].cel_expr
        /\ args[c].response = args[d].response
        /\ args[c].response.body # <<>>
        /\ args[c].response_body_hash = Some(hash(args[c].response.body))
        /\ args[d].response_body_hash = None

\* C7: skip() and response_only() return a certification and to_tree_path()
\* a path for every input; a failure is returned by full() alone and is the
\* failure of the request hasher.
C7_OnlyFullFails ==
    \A c \in Callers :
        /\ op[c] = "skip" =>
               Built(c) /\ IsCertification(ret[c]) /\ ret[c].type = "Skip"
        /\ op[c] = "response_only" =>
               Built(c) /\ IsCertification(ret[c]) /\ ret[c].type = "ResponseOnly"
        /\ Encoded(c) =>
               /\ Len(tree_path[c]) \in {1, 3}
               /\ \A i \in 1..Len(tree_path[c]) :
                      tree_path[c][i] = <<>> \/ IsHash(tree_path[c][i])
        /\ (pc[c] = "failed" \/ "err" \in DOMAIN ret[c]) =>
               /\ op[c] = "full"
               /\ ~RequestHashOf(c).ok
               /\ ret[c] = Err(RequestHashOf(c).err)

C7_Witness ==
    \E c, d \in Callers :
        /\ op[c] = "response_only" /\ Encoded(c)
        /\ ~args[c].response_body_hash.some /\ args[c].response.body # <<>>
        /\ op[d] = "full" /\ pc[d] = "failed"

CallOrder(c) == [i \in 1..Len(calls[c]) |-> calls[c][i].fn]

\* C9 as stated: in full() the response hasher is called before the request
\* hasher, so that it has been called when request hashing fails.
C9_ResponseHashedFirst ==
    \A c \in Callers :
        op[c] = "full" =>
            \E i, j \in 1..Len(calls[c]) :
                /\ i < j
                /\ calls[c][i].fn = "response_hash"
                /\ calls[c][j].fn = "request_hash"

\* C9 amended: in full() the policy hash is computed first, the request hash
\* second and the response hash last; when request hashing fails the
\* response hasher is not called at all.
C9_RequestHashedFirst ==
    \A c \in Callers :
        op[c] = "full" =>
            IF ret[c].ok
            THEN CallOrder(c) = <<"hash", "request_hash", "response_hash">>
            ELSE CallOrder(c) = <<"hash", "request_hash">>

C9_Witness ==
    \E c, d \in Callers :
        /\ op[c] = "full" /\ pc[c] = "failed"
        /\ op[d] = "full" /\ Built(d)

\* certifications over the digests of the bodies
SmallHashes == {hash(b) : b \in Bodies \cup {<<0, 0>>}}

HttpCertifications ==
    {Skip(h) : h \in SmallHashes}
        \cup {ResponseOnly(h, r) : h \in SmallHashes, r \in SmallHashes}
        \cup {Full(h, q, r) : h \in SmallHashes, q \in SmallHashes, r \in SmallHashes}

ToTreePathInjective ==
    \A x, y \in HttpCertifications :
        (to_tree_path(x) = to_tree_path(y)) <=> (x = y)

\* C10: two certifications have the same tree path exactly when they are
\* the same variant with equal fields; the second segment is empty for
\* ResponseOnly and a hash of HashLen bytes for Full.
C10_PathInjective ==
    /\ ToTreePathInjective
    /\ \A c, d \in Callers :
           (Encoded(c) /\ Encoded(d)) =>
               ((tree_path[c] = tree_path[d]) <=> (Certification(c) = Certification(d)))
    /\ \A c \in Callers :
           Encoded(c) =>
               /\ Certification(c).type = "ResponseOnly" => tree_path[c][2] = <<>>
               /\ Certification(c).type = "Full" => Len(tree_path[c][2]) = HashLen

C10_Witness ==
    \E c, d \in Callers :
        /\ Encoded(c) /\ Encoded(d)
        /\ op[c] = "response_only" /\ op[d] = "response_only"
        /\ ret[c].cel_expr_hash = ret[d].cel_expr_hash
        /\ ret[c].response_hash # ret[d].response_hash

====
